---- MODULE Spec2Model ----
(***************************************************************************)
(* DASH backend: the two request handlers around the agent executor.       *)
(*   src/backend/api.py              query_agent   (FastAPI, POST /query)  *)
(*   src/backend/lambda_function.py  lambda_handler (serverless)           *)
(*   src/backend/main.py             memory, DataQuery, parser,            *)
(*                                   agent_executor                        *)
(* Each handler kind runs in a process of its own, which imports main.py   *)
(* once and so owns one module-level memory.  JSON texts are strings; the  *)
(* decoders are tables over the texts the model draws from.                *)
(***************************************************************************)
EXTENDS Integers, Sequences, FiniteSets, TLC

\* ------------------------------------------------------------------ bounds
MaxRequests == 2

Reqs == 1..MaxRequests
Procs == {"http", "lambda"}
NoReq == 0

\* --------------------------------------------------------------- JSON data
AllKeys == {"query", "summary", "relevancyExplained", "sources", "tools_used", "title"}

Absent == [t |-> "absent", s |-> "", l |-> <<>>]
Str(x) == [t |-> "str", s |-> x, l |-> <<>>]
List(xs) == [t |-> "list", s |-> "", l |-> xs]

NoVals == [k \in AllKeys |-> Absent]
JObject(keys, vals) == [ok |-> TRUE, type |-> "object", keys |-> keys, val |-> vals]
JArray == [ok |-> TRUE, type |-> "array", keys |-> {}, val |-> NoVals]
JInvalid == [ok |-> FALSE, type |-> "none", keys |-> {}, val |-> NoVals]

\* request bodies
EnvQuery == "{\"query\": \"I need data about housing prices\"}"
EnvEmpty == "{\"query\": \"\"}"
EnvMissing == "{}"
EnvArray == "[1]"
EnvGarbage == "query=housing"

\* agent output texts
TxtValid == "{\"summary\":\"s\",\"relevancyExplained\":\"r\",\"sources\":[\"u1\",\"u2\"],\"tools_used\":[\"search\"]}"
TxtExtra == "{\"title\":\"t\",\"summary\":\"s2\",\"relevancyExplained\":\"r\",\"sources\":[\"u2\",\"u1\"],\"tools_used\":[]}"
TxtPartial == "{\"summary\":\"s\",\"relevancyExplained\":\"r\",\"sources\":[\"u1\"]}"
TxtMistyped == "{\"summary\":\"s\",\"relevancyExplained\":\"r\",\"sources\":\"u1\",\"tools_used\":[\"search\"]}"
TxtProse == "Here are some datasets about housing prices."

Bodies == {EnvQuery, EnvEmpty, EnvMissing, EnvArray, EnvGarbage}
Texts == {TxtValid, TxtExtra, TxtPartial, TxtMistyped, TxtProse}
NoText == "<none>"

\* json.loads / Request.json on the texts above
json_loads(s) ==
  CASE s = EnvQuery ->
         JObject({"query"}, [NoVals EXCEPT !["query"] = Str("I need data about housing prices")])
    [] s = EnvEmpty ->
         JObject({"query"}, [NoVals EXCEPT !["query"] = Str("")])
    [] s = EnvMissing -> JObject({}, NoVals)
    [] s = EnvArray -> JArray
    [] s = TxtValid ->
         JObject({"summary", "relevancyExplained", "sources", "tools_used"},
                 [NoVals EXCEPT !["summary"] = Str("s"), !["relevancyExplained"] = Str("r"),
                                !["sources"] = List(<<"u1", "u2">>),
                                !["tools_used"] = List(<<"search">>)])
    [] s = TxtExtra ->
         JObject({"title", "summary", "relevancyExplained", "sources", "tools_used"},
                 [NoVals EXCEPT !["title"] = Str("t"),
                                !["summary"] = Str("s2"), !["relevancyExplained"] = Str("r"),
                                !["sources"] = List(<<"u2", "u1">>),
                                !["tools_used"] = List(<<>>)])
    [] s = TxtPartial ->
         JObject({"summary", "relevancyExplained", "sources"},
                 [NoVals EXCEPT !["summary"] = Str("s"), !["relevancyExplained"] = Str("r"),
                                !["sources"] = List(<<"u1">>)])
    [] s = TxtMistyped ->
         JObject({"summary", "relevancyExplained", "sources", "tools_used"},
                 [NoVals EXCEPT !["summary"] = Str("s"), !["relevancyExplained"] = Str("r"),
                                !["sources"] = Str("u1"),
                                !["tools_used"] = List(<<"search">>)])
    [] OTHER -> JInvalid

\* ------------------------------------------------------ DataQuery / parser
StrFields == {"summary", "relevancyExplained"}
ListFields == {"sources", "tools_used"}
DataQueryFields == StrFields \cup ListFields

\* pydantic validation of a decoded value against class DataQuery
DataQuery(j) ==
  /\ j.ok
  /\ j.type = "object"
  /\ DataQueryFields \subseteq j.keys
  /\ \A f \in StrFields : j.val[f].t = "str"
  /\ \A f \in ListFields : j.val[f].t = "list"

InvalidJsonMsg == "Invalid json output"
FailedToParseMsg == "Failed to parse DataQuery from completion"

\* parser.parse(text): the parsed model, or the exception it raises
parse(text) ==
  LET j == json_loads(text) IN
  IF ~j.ok THEN [ok |-> FALSE, exc |-> InvalidJsonMsg, obj |-> NoVals]
  ELSE IF ~DataQuery(j) THEN [ok |-> FALSE, exc |-> FailedToParseMsg, obj |-> NoVals]
  ELSE [ok |-> TRUE, exc |-> "",
        obj |-> [k \in AllKeys |-> IF k \in DataQueryFields THEN j.val[k] ELSE Absent]]

\* ---------------------------------------------------------------- responses
NoResp ==
  [outcome |-> "none", status |-> 0, keys |-> {}, summary |-> "", relevancyExplained |-> "",
   sources |-> <<>>, tools_used |-> <<>>, error |-> "", raw |-> NoText, message |-> ""]

ReverseSeq(xs) == [i \in 1..Len(xs) |-> xs[Len(xs) + 1 - i]]

\* a dict() that loses the order of the sequences
dict_reversed(obj) ==
  [NoResp EXCEPT !.outcome = "returned", !.status = 200, !.keys = DataQueryFields,
                 !.summary = obj["summary"].s,
                 !.relevancyExplained = obj["relevancyExplained"].s,
                 !.sources = ReverseSeq(obj["sources"].l),
                 !.tools_used = ReverseSeq(obj["tools_used"].l)]

\* structured_response.dict() sent with the success status
dict(obj) ==
  [NoResp EXCEPT !.outcome = "returned", !.status = 200, !.keys = DataQueryFields,
                 !.summary = obj["summary"].s,
                 !.relevancyExplained = obj["relevancyExplained"].s,
                 !.sources = obj["sources"].l,
                 !.tools_used = obj["tools_used"].l]

NoQueryMsg == "No query provided"
LambdaMessage == "An error occurred while processing your request."

\* api.py line 23
BadRequest ==
  [NoResp EXCEPT !.outcome = "returned", !.status = 400, !.keys = {"error"},
                 !.error = NoQueryMsg]

\* api.py line 29
HttpParseError(e, rawText) ==
  [NoResp EXCEPT !.outcome = "returned", !.status = 500, !.keys = {"error", "raw"},
                 !.error = e, !.raw = rawText]

\* lambda_function.py lines 35-44
LambdaExcept(e) ==
  [NoResp EXCEPT !.outcome = "returned", !.status = 500, !.keys = {"error", "message"},
                 !.error = e, !.message = LambdaMessage]

\* an exception leaving query_agent: no envelope is built by the handler
Unhandled(e) == [NoResp EXCEPT !.outcome = "raised", !.error = e]

\* -------------------------------------------------------------------- state
VARIABLES
  pc,            \* where each request's handler stands
  kind,          \* which handler serves the request
  envelope,      \* the inbound request body / event
  data,          \* api.py `data`, lambda_function.py `body`
  query,         \* api.py `user_query`, lambda_function.py `query`
  chat_history,  \* the history the executor loaded into the prompt inputs
  output,        \* raw_response["output"]
  exc,           \* the exception raised while handling the request
  resp,          \* what the caller gets
  invoke_calls,  \* calls of agent_executor.invoke made by the request
  memory,        \* main.py `memory`, one per process
  running,       \* the request that holds the process's thread
  after_fault    \* the request arrived after a request its process served saw the agent raise

vars == <<pc, kind, envelope, data, query, chat_history, output, exc, resp,
          invoke_calls, memory, running, after_fault>>

None == "<None>"
NoEnv == [btype |-> "unset", text |-> ""]

HttpEnvelopes == [btype : {"str"}, text : Bodies]
LambdaEvents ==
  [btype : {"str"}, text : Bodies] \cup
  {[btype |-> "dict", text |-> EnvQuery], [btype |-> "none", text |-> ""]}

UpstreamMsg == "provider outage"
JSONDecodeErrorMsg == "Expecting value"
AttributeErrorMsg == "object has no attribute 'get'"

HumanMessage(q) == [role |-> "human", content |-> q]
AIMessage(t) == [role |-> "ai", content |-> t]

Init ==
  /\ pc = [r \in Reqs |-> "idle"]
  /\ kind = [r \in Reqs |-> "none"]
  /\ envelope = [r \in Reqs |-> NoEnv]
  /\ data = [r \in Reqs |-> JInvalid]
  /\ query = [r \in Reqs |-> None]
  /\ chat_history = [r \in Reqs |-> <<>>]
  /\ output = [r \in Reqs |-> NoText]
  /\ exc = [r \in Reqs |-> ""]
  /\ resp = [r \in Reqs |-> NoResp]
  /\ invoke_calls = [r \in Reqs |-> 0]
  /\ memory = [p \in Procs |-> <<>>]
  /\ running = [p \in Procs |-> NoReq]
  /\ after_fault = [r \in Reqs |-> FALSE]

\* ---------------------------------------------------------------- scheduling
\* a handler run by a pool of threads: any request may step at any point
YieldsThreaded(p, n) == TRUE

\* a process whose thread is lost when an exception leaves the handler
YieldsUnlessFault(p, n) == n = "done" \/ (p = "http" /\ n = "json")

\* The points at which a handler gives the thread up.  query_agent is a
\* coroutine on the server's one event loop: it yields at `await
\* request.json()` and when it ends; agent_executor.invoke is a plain call.
\* lambda_handler is one call per event, the next event waits for its end.
Yields(p, n) == n \in {"done", "fault"} \/ (p = "http" /\ n = "json")

CanRun(p, r) == running[p] \in {NoReq, r}

Goto(p, r, n) ==
  /\ pc' = [pc EXCEPT ![r] = n]
  /\ running' = [running EXCEPT ![p] = IF Yields(p, n) THEN NoReq ELSE r]

\* some request the process has served ended with the agent raising
AgentRaised(p) ==
  \E q \in Reqs : kind[q] = p /\ pc[q] \in {"done", "fault"} /\ exc[q] = UpstreamMsg

get(j, k, default) == IF k \in j.keys THEN j.val[k].s ELSE default

\* ------------------------------------------------------------- query_agent
HttpReceive(r, env) ==
  /\ pc[r] = "idle"
  /\ CanRun("http", r)
  /\ kind' = [kind EXCEPT ![r] = "http"]
  /\ envelope' = [envelope EXCEPT ![r] = env]
  /\ after_fault' = [after_fault EXCEPT ![r] = AgentRaised("http")]
  /\ Goto("http", r, "json")
  /\ UNCHANGED <<data, query, chat_history, output, exc, resp, invoke_calls, memory>>

\* data = await request.json(), the body being no JSON text
HttpJsonRaise(r) ==
  /\ pc[r] = "json" /\ kind[r] = "http"
  /\ CanRun("http", r)
  /\ ~json_loads(envelope[r].text).ok
  /\ exc' = [exc EXCEPT ![r] = JSONDecodeErrorMsg]
  /\ resp' = [resp EXCEPT ![r] = Unhandled(JSONDecodeErrorMsg)]
  /\ Goto("http", r, "fault")
  /\ UNCHANGED <<kind, envelope, data, query, chat_history, output, invoke_calls, memory, after_fault>>

HttpJson(r) ==
  /\ pc[r] = "json" /\ kind[r] = "http"
  /\ CanRun("http", r)
  /\ json_loads(envelope[r].text).ok
  /\ data' = [data EXCEPT ![r] = json_loads(envelope[r].text)]
  /\ Goto("http", r, "check")
  /\ UNCHANGED <<kind, envelope, query, chat_history, output, exc, resp, invoke_calls, memory, after_fault>>

\* data.get("query") on a body that is no JSON object
HttpGetRaise(r) ==
  /\ pc[r] = "check" /\ kind[r] = "http"
  /\ CanRun("http", r)
  /\ data[r].type # "object"
  /\ exc' = [exc EXCEPT ![r] = AttributeErrorMsg]
  /\ resp' = [resp EXCEPT ![r] = Unhandled(AttributeErrorMsg)]
  /\ Goto("http", r, "fault")
  /\ UNCHANGED <<kind, envelope, data, query, chat_history, output, invoke_calls, memory, after_fault>>

\* a check that records the query in the history before it rejects it
HttpCheckRecording(r) ==
  /\ pc[r] = "check" /\ kind[r] = "http"
  /\ CanRun("http", r)
  /\ data[r].type = "object"
  /\ query' = [query EXCEPT ![r] = get(data[r], "query", None)]
  /\ memory' = [memory EXCEPT !["http"] = Append(@, HumanMessage(query'[r]))]
  /\ IF query'[r] \in {None, ""}
       THEN /\ resp' = [resp EXCEPT ![r] = BadRequest]
            /\ Goto("http", r, "done")
       ELSE /\ resp' = resp
            /\ Goto("http", r, "load")
  /\ UNCHANGED <<kind, envelope, data, chat_history, output, exc, invoke_calls, after_fault>>

\* user_query = data.get("query"); if not user_query: return 400
HttpCheck(r) ==
  /\ pc[r] = "check" /\ kind[r] = "http"
  /\ CanRun("http", r)
  /\ data[r].type = "object"
  /\ query' = [query EXCEPT ![r] = get(data[r], "query", None)]
  /\ IF query'[r] \in {None, ""}
       THEN /\ resp' = [resp EXCEPT ![r] = BadRequest]
            /\ Goto("http", r, "done")
       ELSE /\ resp' = resp
            /\ Goto("http", r, "load")
  /\ UNCHANGED <<kind, envelope, data, chat_history, output, exc, invoke_calls, memory, after_fault>>

\* ----------------------------------------------------------- lambda_handler
LambdaReceive(r, ev) ==
  /\ pc[r] = "idle"
  /\ CanRun("lambda", r)
  /\ kind' = [kind EXCEPT ![r] = "lambda"]
  /\ envelope' = [envelope EXCEPT ![r] = ev]
  /\ after_fault' = [after_fault EXCEPT ![r] = AgentRaised("lambda")]
  /\ Goto("lambda", r, "body")
  /\ UNCHANGED <<data, query, chat_history, output, exc, resp, invoke_calls, memory>>

\* lines 8-19: the body as a dict, {} when it is neither a dict nor JSON text
body_of(ev) ==
  IF ev.btype = "str"
    THEN IF json_loads(ev.text).ok THEN json_loads(ev.text) ELSE JObject({}, NoVals)
    ELSE IF ev.btype = "dict" THEN json_loads(ev.text) ELSE JObject({}, NoVals)

\* body.get('query', '') on a body whose JSON text is no object: caught at line 35
LambdaGetRaise(r) ==
  /\ pc[r] = "body" /\ kind[r] = "lambda"
  /\ CanRun("lambda", r)
  /\ body_of(envelope[r]).type # "object"
  /\ data' = [data EXCEPT ![r] = body_of(envelope[r])]
  /\ exc' = [exc EXCEPT ![r] = AttributeErrorMsg]
  /\ resp' = [resp EXCEPT ![r] = LambdaExcept(AttributeErrorMsg)]
  /\ Goto("lambda", r, "done")
  /\ UNCHANGED <<kind, envelope, query, chat_history, output, invoke_calls, memory, after_fault>>

\* lines 8-24: query = body.get('query', ''), then straight on to the executor
LambdaBody(r) ==
  /\ pc[r] = "body" /\ kind[r] = "lambda"
  /\ CanRun("lambda", r)
  /\ body_of(envelope[r]).type = "object"
  /\ data' = [data EXCEPT ![r] = body_of(envelope[r])]
  /\ query' = [query EXCEPT ![r] = get(body_of(envelope[r]), "query", "")]
  /\ Goto("lambda", r, "load")
  /\ UNCHANGED <<kind, envelope, chat_history, output, exc, resp, invoke_calls, memory, after_fault>>

\* ---------------------------------------------- agent_executor.invoke(...)
\* memory.load_memory_variables: the history goes into the prompt inputs
Load(r) ==
  /\ pc[r] = "load"
  /\ CanRun(kind[r], r)
  /\ invoke_calls' = [invoke_calls EXCEPT ![r] = @ + 1]
  /\ chat_history' = [chat_history EXCEPT ![r] = memory[kind[r]]]
  /\ Goto(kind[r], r, "agent")
  /\ UNCHANGED <<kind, envelope, data, query, output, exc, resp, memory, after_fault>>

\* the agent loop ends with a text
AgentReturn(r, t) ==
  /\ pc[r] = "agent"
  /\ CanRun(kind[r], r)
  /\ output' = [output EXCEPT ![r] = t]
  /\ Goto(kind[r], r, "save_human")
  /\ UNCHANGED <<kind, envelope, data, query, chat_history, exc, resp, invoke_calls, memory, after_fault>>

\* the agent loop raises; api.py calls invoke outside its try
HttpAgentRaise(r) ==
  /\ pc[r] = "agent" /\ kind[r] = "http"
  /\ CanRun("http", r)
  /\ exc' = [exc EXCEPT ![r] = UpstreamMsg]
  /\ resp' = [resp EXCEPT ![r] = Unhandled(UpstreamMsg)]
  /\ Goto("http", r, "fault")
  /\ UNCHANGED <<kind, envelope, data, query, chat_history, output, invoke_calls, memory, after_fault>>

\* the agent loop raises; lambda_function.py catches it at line 35
LambdaAgentRaise(r) ==
  /\ pc[r] = "agent" /\ kind[r] = "lambda"
  /\ CanRun("lambda", r)
  /\ exc' = [exc EXCEPT ![r] = UpstreamMsg]
  /\ resp' = [resp EXCEPT ![r] = LambdaExcept(UpstreamMsg)]
  /\ Goto("lambda", r, "done")
  /\ UNCHANGED <<kind, envelope, data, query, chat_history, output, invoke_calls, memory, after_fault>>

\* a memory that keeps the agent's text only when it parses
add_ai_message_if_parsed(h, t) == IF parse(t).ok THEN Append(h, AIMessage(t)) ELSE h

add_user_message(h, q) == Append(h, HumanMessage(q))
add_ai_message(h, t) == Append(h, AIMessage(t))

\* memory.save_context, first half: the user's turn
SaveHuman(r) ==
  /\ pc[r] = "save_human"
  /\ CanRun(kind[r], r)
  /\ memory' = [memory EXCEPT ![kind[r]] = add_user_message(@, query[r])]
  /\ Goto(kind[r], r, "save_ai")
  /\ UNCHANGED <<kind, envelope, data, query, chat_history, output, exc, resp, invoke_calls, after_fault>>

\* memory.save_context, second half: the agent's turn
SaveAI(r) ==
  /\ pc[r] = "save_ai"
  /\ CanRun(kind[r], r)
  /\ memory' = [memory EXCEPT ![kind[r]] = add_ai_message(@, output[r])]
  /\ Goto(kind[r], r, "parse")
  /\ UNCHANGED <<kind, envelope, data, query, chat_history, output, exc, resp, invoke_calls, after_fault>>

\* ------------------------------------------------- parser.parse and the reply
\* api.py lines 25-29
HttpParse(r) ==
  /\ pc[r] = "parse" /\ kind[r] = "http"
  /\ CanRun("http", r)
  /\ LET res == parse(output[r]) IN
       /\ exc' = [exc EXCEPT ![r] = res.exc]
       /\ resp' = [resp EXCEPT ![r] =
                     IF res.ok THEN dict(res.obj) ELSE HttpParseError(res.exc, output[r])]
  /\ Goto("http", r, "done")
  /\ UNCHANGED <<kind, envelope, data, query, chat_history, output, invoke_calls, memory, after_fault>>

\* lambda_function.py lines 27-44
LambdaParse(r) ==
  /\ pc[r] = "parse" /\ kind[r] = "lambda"
  /\ CanRun("lambda", r)
  /\ LET res == parse(output[r]) IN
       /\ exc' = [exc EXCEPT ![r] = res.exc]
       /\ resp' = [resp EXCEPT ![r] =
                     IF res.ok THEN dict(res.obj) ELSE LambdaExcept(res.exc)]
  /\ Goto("lambda", r, "done")
  /\ UNCHANGED <<kind, envelope, data, query, chat_history, output, invoke_calls, memory, after_fault>>

\* ------------------------------------------------------------ specification
Next ==
  \/ \E r \in Reqs, env \in HttpEnvelopes : HttpReceive(r, env)
  \/ \E r \in Reqs : HttpJsonRaise(r)
  \/ \E r \in Reqs : HttpJson(r)
  \/ \E r \in Reqs : HttpGetRaise(r)
  \/ \E r \in Reqs : HttpCheck(r)
  \/ \E r \in Reqs, ev \in LambdaEvents : LambdaReceive(r, ev)
  \/ \E r \in Reqs : LambdaGetRaise(r)
  \/ \E r \in Reqs : LambdaBody(r)
  \/ \E r \in Reqs : Load(r)
  \/ \E r \in Reqs, t \in Texts : AgentReturn(r, t)
  \/ \E r \in Reqs : HttpAgentRaise(r)
  \/ \E r \in Reqs : LambdaAgentRaise(r)
  \/ \E r \in Reqs : SaveHuman(r)
  \/ \E r \in Reqs : SaveAI(r)
  \/ \E r \in Reqs : HttpParse(r)
  \/ \E r \in Reqs : LambdaParse(r)

Spec == Init /\ [][Next]_vars

TypeOK ==
  /\ pc \in [Reqs -> {"idle", "json", "check", "body", "load", "agent", "save_human",
                      "save_ai", "parse", "done", "fault"}]
  /\ kind \in [Reqs -> Procs \cup {"none"}]
  /\ running \in [Procs -> Reqs \cup {NoReq}]
  /\ \A r \in Reqs : invoke_calls[r] \in 0..1

\* ------------------------------------------------------------------- claims
Finished(r) == pc[r] \in {"done", "fault"}
HasQuery(r) == query[r] \notin {None, ""}
Returned(r) == output[r] # NoText
IsDataQuery(t) == DataQuery(json_loads(t))
Decoded(r) == IF kind[r] = "lambda" THEN body_of(envelope[r]) ELSE json_loads(envelope[r].text)
QueryAbsentOrEmpty(r) ==
  /\ kind[r] # "none"
  /\ Decoded(r).type = "object"
  /\ get(Decoded(r), "query", "") = ""
Echoes(r) ==
  LET j == json_loads(output[r]) IN
  /\ resp[r].outcome = "returned"
  /\ resp[r].status = 200
  /\ resp[r].keys = DataQueryFields
  /\ resp[r].summary = j.val["summary"].s
  /\ resp[r].relevancyExplained = j.val["relevancyExplained"].s
  /\ resp[r].sources = j.val["sources"].l
  /\ resp[r].tools_used = j.val["tools_used"].l
IsPrefix(a, b) == Len(a) <= Len(b) /\ SubSeq(b, 1, Len(a)) = a
HasTurn(h, q, t) ==
  \E i \in 1..(Len(h) - 1) : h[i] = HumanMessage(q) /\ h[i + 1] = AIMessage(t)

\* C1: in both handlers a request whose query is missing or empty ends with the
\* BadRequest response (400, error "No query provided") and never calls
\* agent_executor.invoke.
C1_BadRequestWithoutInvoke ==
  \A r \in Reqs :
    QueryAbsentOrEmpty(r) =>
      /\ invoke_calls[r] = 0
      /\ Finished(r) => resp[r] = BadRequest

\* C2: in both handlers no request ends with an exception leaving the handler,
\* and a request during which an exception was raised ends with an error
\* envelope, a failure status and a non-empty message.
C2_NoExceptionEscapes ==
  \A r \in Reqs :
    /\ pc[r] # "fault"
    /\ (pc[r] = "done" /\ exc[r] # "") =>
         /\ resp[r].outcome = "returned"
         /\ resp[r].status >= 400
         /\ "error" \in resp[r].keys
         /\ resp[r].error # "" \/ resp[r].message # ""

\* C3: in both handlers a request with a non-empty query whose agent text does
\* not match DataQuery ends with status 500 and a body holding an error message
\* and a raw field equal to the agent text.
C3_MismatchCarriesRaw ==
  \A r \in Reqs :
    (pc[r] = "done" /\ HasQuery(r) /\ Returned(r) /\ ~IsDataQuery(output[r])) =>
      /\ resp[r].status = 500
      /\ {"error", "raw"} \subseteq resp[r].keys
      /\ resp[r].error # ""
      /\ resp[r].raw = output[r]

\* C4: in both handlers a request with a non-empty query whose agent text
\* matches DataQuery ends with status 200 and a body of exactly the four
\* fields, with the values of the agent text and the sequences in its order.
C4_ValidTextEchoed ==
  \A r \in Reqs :
    (pc[r] = "done" /\ HasQuery(r) /\ Returned(r) /\ IsDataQuery(output[r])) => Echoes(r)

C4_Witness ==
  \E r1, r2 \in Reqs :
    /\ kind[r1] = "http" /\ kind[r2] = "lambda"
    /\ pc[r1] = "done" /\ pc[r2] = "done"
    /\ HasQuery(r1) /\ HasQuery(r2)
    /\ output[r1] = TxtValid /\ output[r2] = TxtExtra
    /\ resp[r1].sources = <<"u1", "u2">> /\ resp[r2].sources = <<"u2", "u1">>

\* C5: a success status goes only with a body of all four DataQuery fields, and
\* a request whose agent text is no complete DataQuery ends with the raw text
\* in the body and none of the DataQuery fields.
C5_AllFieldsOrRaw ==
  \A r \in Reqs :
    /\ resp[r].status = 200 => resp[r].keys = DataQueryFields
    /\ (Finished(r) /\ Returned(r) /\ ~IsDataQuery(output[r])) =>
         /\ resp[r].keys \cap DataQueryFields = {}
         /\ "raw" \in resp[r].keys
         /\ resp[r].raw = output[r]

\* C6: every call of agent_executor.invoke made by lambda_handler is given an
\* empty conversation history.
C6_LambdaHistoryEmpty ==
  \A r \in Reqs :
    (kind[r] = "lambda" /\ invoke_calls[r] > 0) => chat_history[r] = <<>>

\* C7: in the HTTP process, from the read of the history by a request's invoke
\* to the end of its two appends no other request touches the history, and the
\* history is a sequence of (user, agent) turns that are never interleaved.
C7_TurnsAtomic ==
  /\ \A r \in Reqs :
       kind[r] = "http" =>
         /\ pc[r] \in {"agent", "save_human"} => memory["http"] = chat_history[r]
         /\ pc[r] = "save_ai" =>
              memory["http"] = Append(chat_history[r], HumanMessage(query[r]))
         /\ pc[r] = "parse" =>
              memory["http"] = chat_history[r] \o <<HumanMessage(query[r]), AIMessage(output[r])>>
  /\ \A i \in 1..Len(memory["http"]) :
       memory["http"][i].role = IF i % 2 = 1 THEN "human" ELSE "ai"

C7_Witness ==
  \E r1, r2 \in Reqs :
    /\ kind[r1] = "http" /\ kind[r2] = "http"
    /\ pc[r1] = "save_ai" /\ pc[r2] = "json"
    /\ Len(memory["http"]) = 1

\* no request of the process is inside a stretch of its handler that does not yield
Quiet(p) == \A q \in Reqs : kind[q] = p => pc[q] \in {"json", "done", "fault"}

\* C8: after a request during which the agent raised, the process, once no
\* handler is running, takes a further request; and a request that arrives after
\* the failure with a non-empty query and a schema-valid agent text is answered
\* with the parsed object.
C8_ServesAfterAgentFailure ==
  /\ \A r \in Reqs :
       (pc[r] = "idle" /\ AgentRaised("http") /\ Quiet("http")) =>
         ENABLED HttpReceive(r, [btype |-> "str", text |-> EnvQuery])
  /\ \A r \in Reqs :
       (pc[r] = "idle" /\ AgentRaised("lambda") /\ Quiet("lambda")) =>
         ENABLED LambdaReceive(r, [btype |-> "str", text |-> EnvQuery])
  /\ \A r \in Reqs :
       (after_fault[r] /\ Finished(r) /\ HasQuery(r) /\ Returned(r) /\ IsDataQuery(output[r])) =>
         Echoes(r)

C8_Witness ==
  \E r1, r2 \in Reqs :
    /\ kind[r1] = "http" /\ pc[r1] = "fault" /\ exc[r1] = UpstreamMsg
    /\ kind[r2] = "http" /\ after_fault[r2] /\ pc[r2] = "done"
    /\ output[r2] = TxtValid /\ resp[r2].status = 200

\* C9: no step of an HTTP request that ends as BadRequest changes the
\* process-wide history: it is the same after each of its steps as before.
C9_BadRequestKeepsHistory ==
  [][\A r \in Reqs :
       (/\ pc'[r] # pc[r]
        /\ kind'[r] = "http"
        /\ \/ pc'[r] \in {"json", "check"}
           \/ pc'[r] = "done" /\ resp'[r] = BadRequest)
       => memory' = memory]_vars

C9_Witness ==
  \E r \in Reqs :
    /\ kind[r] = "http" /\ pc[r] = "done" /\ resp[r] = BadRequest
    /\ Len(memory["http"]) = 2

\* C10: the history of the HTTP process only grows, by one (query, text) turn
\* for each invoke that returned a text, parsed or not; the turn of a request
\* answered with the parse error is in the history the next invoke reads.
C10_HistoryAppendOnly ==
  /\ [][IsPrefix(memory["http"], memory'["http"])]_vars
  /\ [](Len(memory["http"]) =
          2 * Cardinality({r \in Reqs : kind[r] = "http" /\ Returned(r) /\ pc[r] \in {"parse", "done"}})
          + Cardinality({r \in Reqs : kind[r] = "http" /\ pc[r] = "save_ai"}))
  /\ [](\A r \in Reqs :
          (kind[r] = "http" /\ Returned(r) /\ pc[r] \in {"parse", "done"}) =>
            HasTurn(memory["http"], query[r], output[r]))
  /\ [](\A r1, r2 \in Reqs :
          (/\ kind[r1] = "http" /\ pc[r1] = "done" /\ "raw" \in resp[r1].keys
           /\ kind[r2] = "http" /\ pc[r2] = "agent") =>
            HasTurn(chat_history[r2], query[r1], output[r1]))

C10_Witness ==
  \E r1, r2 \in Reqs :
    /\ kind[r1] = "http" /\ pc[r1] = "done" /\ resp[r1].raw = TxtProse
    /\ kind[r2] = "http" /\ pc[r2] = "agent"
    /\ chat_history[r2] = <<HumanMessage(query[r1]), AIMessage(TxtProse)>>

====
